---- MODULE Spec2Model ----
(***************************************************************************)
(* Session Store of the chat application: the chat_sessions and            *)
(* chat_messages tables of chat_sessions.db, the SessionManager operations *)
(* over them (src/session_manager.py) and the UI's full-session rewrite    *)
(* save_current_session (src/session_ui.py).                               *)
(*                                                                         *)
(* Every `with sqlite3.connect(...) as conn` block is one transaction: it  *)
(* commits when the block ends normally and rolls back when a statement    *)
(* raises, so a block is one atomic step that either takes effect or does  *)
(* not.  A statement may raise sqlite3.Error (locked file, full disk,      *)
(* constraint): that is the `fail` input of each action.                   *)
(* save_current_session runs several such blocks one after the other, so   *)
(* it is several steps, and calls of other request handlers may come in    *)
(* between them.                                                           *)
(*                                                                         *)
(* Search History of the same application: the search_history table of     *)
(* search_history.db, SearchHistoryManager (src/search_history.py) and its *)
(* caller log_interaction (src/agent.py).  The two databases share no      *)
(* state; each has its own specification below.                            *)
(*                                                                         *)
(* The user interface over both (src/app.py, src/session_ui.py): the       *)
(* handlers of a request handler's script, the session export and the      *)
(* title generated from the first message.                                 *)
(***************************************************************************)
EXTENDS Integers, Sequences, FiniteSets, TLC

\* ---- bounds of the model ----
MaxUuid == 2      \* create_new_session is called while uuid4() has returned fewer values
MaxRows == 2      \* chat_messages holds at most this many rows at a time
MaxClock == 1     \* datetime.now() and CURRENT_TIMESTAMP return 0..MaxClock
MaxRecords == 2   \* log_search is called while record_id has stayed below this

\* ---- input domains ----
None == 0                                  \* Python None / a missing key
CURRENT_USER == "Fady"                     \* the user every UI call is made for
Users == {CURRENT_USER, "Eve"}             \* user_login arguments
\* the messages callers save: the user's prompt and the assistant's reply
Msgs == {[role |-> "user", content |-> "Hello"],
         [role |-> "assistant", content |-> "Hi there"]}
Indices == {0, 1}                         \* message_index arguments
\* st.session_state.messages: any sequence of such messages
Transcripts == UNION {[1..n -> Msgs] : n \in 0..MaxRows}

\* PRAGMA foreign_keys is never issued on a connection, so SQLite keeps its
\* default: the FOREIGN KEY clause of chat_messages is parsed, not enforced.
foreign_keys == FALSE

VARIABLES
  sessions,    \* chat_sessions: session_id -> row
  messages,    \* chat_messages: rows in message_id (AUTOINCREMENT) order
  nextUuid,    \* the next value uuid4() returns
  now,         \* the last value datetime.now() returned
  pc,          \* position of the handler running save_current_session
  rw,          \* that handler's locals
  saved,       \* history: per stored session, the save_message calls that committed
  lastCall,    \* history: the last call of create_new_session, delete_session,
               \* archive_session or save_current_session that returned, the
               \* branch it returned from and the value it returned
  history,     \* search_history (search_history.db): rows in record_id order
  utc,         \* the last value of SQLite's CURRENT_TIMESTAMP, in seconds
  lastLog,     \* history: the last log_search call, its source argument and
               \* the value it returned
  lastExport,  \* history: what the last export_to_csv call wrote and returned
  seq,         \* sqlite_sequence: the largest record_id search_history ever used
  lastClear,   \* history: the last clear_history call, its argument, the zone
               \* of the host's clock and the value it returned
  ui,          \* st.session_state of each request handler (browser session)
  lastUi,      \* history: the last UI action that finished, and what it met
  download,    \* the data of the last st.download_button export_session rendered
  titled       \* history: the last generate_session_title call, argument and result

storeVars == <<sessions, messages, nextUuid, now, pc, rw, saved, lastCall>>
historyVars == <<history, utc, lastLog, lastExport, seq, lastClear>>
uiVars == <<ui, lastUi, download, titled>>
vars == <<sessions, messages, nextUuid, now, pc, rw, saved, lastCall,
          history, utc, lastLog, lastExport, seq, lastClear, ui, lastUi, download, titled>>

\* ---- helpers ----
Min(a, b) == IF a < b THEN a ELSE b

\* datetime.now(): the clock does not run backwards; it may or may not have
\* advanced since the previous read.
Tick(t) == t..Min(t + 1, MaxClock)

Stored(sid) == sid \in DOMAIN sessions

\* SELECT ... FROM chat_messages WHERE session_id = ?  (in message_id order)
RowsOf(msgs, sid) == SelectSeq(msgs, LAMBDA m : m.session_id = sid)

\* SELECT COUNT(*) FROM chat_messages WHERE session_id = ?
CountRows(msgs, sid) == Len(RowsOf(msgs, sid))

\* DELETE FROM chat_messages WHERE session_id = ?
DeleteRows(msgs, sid) == SelectSeq(msgs, LAMBDA m : m.session_id # sid)

\* ORDER BY message_index ASC; rows with equal message_index stay in
\* message_id order (SQLite scans by rowid and its sorter keeps that order).
InsertByIndex(s, m) ==
  LET before == SelectSeq(s, LAMBDA x : x.message_index <= m.message_index)
      after  == SelectSeq(s, LAMBDA x : x.message_index > m.message_index)
  IN  before \o <<m>> \o after

\* mutant: the ORDER BY clause is missing, rows come back in message_id order
OrderByMessageIndex_Unordered(s) == s

RECURSIVE OrderByMessageIndex(_)
OrderByMessageIndex(s) ==
  IF s = <<>> THEN <<>>
  ELSE InsertByIndex(OrderByMessageIndex(SubSeq(s, 1, Len(s) - 1)), s[Len(s)])

\* the dictionary built for each fetched row (the timestamp column is not modelled)
Project(m) == [role |-> m.role, content |-> m.content, message_index |-> m.message_index]

\* SessionManager.load_session_messages, on a given table
LoadFrom(msgs, sid) ==
  LET rows == OrderByMessageIndex(RowsOf(msgs, sid))
  IN  [k \in 1..Len(rows) |-> Project(rows[k])]

\* SessionManager.load_session_messages
load_session_messages(sid) == LoadFrom(messages, sid)

\* the rows enumerate(st.session_state.messages) asks save_message to write
Enumerate(M) ==
  [k \in 1..Len(M) |-> [role |-> M[k].role, content |-> M[k].content, message_index |-> k - 1]]

\* title written by create_new_session when no title is passed
\* ("Chat Session - <date> <hh:mm>"; the stamp is not modelled)
DefaultTitle == <<"Chat Session">>

\* SessionManager.generate_session_title, as an uninterpreted title of the message
generate_session_title(first_message) == <<"title of", first_message>>

NoRw == [sid |-> None]

\* the request handlers: one Streamlit script per browser session, each with
\* its own st.session_state
Handlers == {1, 2}
\* before the first script run: no current_session_id key (None), and
\* "messages" set to [] by app.py; session_needs_title is read with .get
FreshState == [current_session_id |-> None, messages |-> <<>>, session_needs_title |-> FALSE]
NoUi == [op |-> "none", h |-> 0, sid |-> None, agent |-> "none", log |-> "none", open |-> FALSE]

Init ==
  /\ sessions = <<>>
  /\ messages = <<>>
  /\ nextUuid = 1
  /\ now = 0
  /\ pc = "idle"
  /\ rw = NoRw
  /\ saved = <<>>
  /\ lastCall = [op |-> "none", path |-> "none", ret |-> None]
  /\ history = <<>>
  /\ utc = 0
  /\ lastLog = [ret |-> None, source |-> "none"]
  /\ lastExport = [ret |-> "none", rows |-> <<>>]
  /\ seq = 0
  /\ lastClear = [op |-> "none", days_to_keep |-> -1, zone |-> 0, at |-> 0, ret |-> FALSE]
  /\ ui = [h \in Handlers |-> FreshState]
  /\ lastUi = NoUi
  /\ download = [session_id |-> None, data |-> <<>>]
  /\ titled = [called |-> FALSE, first_message |-> <<>>, title |-> <<>>]

\* value of the history variable for a session whose rows a rewrite has deleted
Wiped == <<[role |-> "-", content |-> "-", message_index |-> -1]>>

Log(sv, sid, row) ==
  IF sid \in DOMAIN sv /\ sv[sid] # Wiped
  THEN [sv EXCEPT ![sid] = Append(@, row)]
  ELSE sv

Remove(f, k) == [x \in DOMAIN f \ {k} |-> f[x]]

\* ---- SessionManager.create_new_session ----
\* the INSERT: the columns it names, and the schema's defaults for the other two
CreateInsert(sess, session_id, user_login, session_title, created_at, last_updated) ==
  sess @@ (session_id :>
    [user_login    |-> user_login,
     session_title |-> IF session_title = None THEN DefaultTitle ELSE session_title,
     created_at    |-> created_at,
     last_updated  |-> last_updated,
     message_count |-> 0,
     is_active     |-> TRUE])

\* uuid4() is drawn once in the try block and, when the INSERT or its commit
\* raises, once more in the handler; the two datetime.now() of the INSERT's
\* parameters are two reads of the clock.
\* mutant: the INSERT is committed before the failure, and the handler still
\* returns its fallback identifier
create_new_session_RowKept(user_login, session_title, fail) ==
  /\ nextUuid <= MaxUuid
  /\ \E t1 \in Tick(now) : \E t2 \in Tick(t1) :
       /\ sessions' = CreateInsert(sessions, nextUuid, user_login, session_title, t1, t2)
       /\ saved' = saved @@ (nextUuid :> <<>>)
       /\ now' = t2
  /\ nextUuid' = nextUuid + (IF fail THEN 2 ELSE 1)
  /\ lastCall' = [op |-> "create_new_session",
                  path |-> IF fail THEN "fallback" ELSE "inserted",
                  ret |-> IF fail THEN nextUuid + 1 ELSE nextUuid]
  /\ UNCHANGED <<messages, pc, rw>>

create_new_session(user_login, session_title, fail) ==
  /\ nextUuid <= MaxUuid
  /\ IF ~fail
     THEN \E t1 \in Tick(now) : \E t2 \in Tick(t1) :
            /\ sessions' = CreateInsert(sessions, nextUuid, user_login, session_title, t1, t2)
            /\ saved' = saved @@ (nextUuid :> <<>>)
            /\ now' = t2
            /\ nextUuid' = nextUuid + 1
            /\ lastCall' = [op |-> "create_new_session", path |-> "inserted", ret |-> nextUuid]
     ELSE /\ UNCHANGED <<sessions, saved, now>>
          /\ nextUuid' = nextUuid + 2
          /\ lastCall' = [op |-> "create_new_session", path |-> "fallback",
                          ret |-> nextUuid + 1]
  /\ UNCHANGED <<messages, pc, rw>>

\* ---- SessionManager.save_message ----
\* the INSERT: one more row, whatever rows the session already has
InsertMessage(msgs, session_id, role, content, message_index) ==
  Append(msgs, [session_id |-> session_id, role |-> role, content |-> content,
                message_index |-> message_index])

\* the UPDATE of the session statistics, after the INSERT, in the same transaction
UpdateStatistics(sess, msgs, session_id, t) ==
  IF session_id \in DOMAIN sess
  THEN [sess EXCEPT ![session_id].last_updated = t,
                    ![session_id].message_count = CountRows(msgs, session_id)]
  ELSE sess

\* the INSERT raises when foreign keys are enforced and the parent row is missing
ForeignKeyViolation(session_id) == foreign_keys /\ ~Stored(session_id)

\* the transaction of save_message: both statements, or neither
SaveMessageEffect(session_id, role, content, message_index, fail) ==
  IF fail \/ ForeignKeyViolation(session_id)
  THEN UNCHANGED <<sessions, messages, now, saved>>
  ELSE \E t \in Tick(now) :
         /\ messages' = InsertMessage(messages, session_id, role, content, message_index)
         /\ sessions' = UpdateStatistics(sessions, messages', session_id, t)
         /\ now' = t
         /\ saved' = Log(saved, session_id,
                         [role |-> role, content |-> content, message_index |-> message_index])

save_message(session_id, role, content, message_index, fail) ==
  /\ Len(messages) < MaxRows
  /\ SaveMessageEffect(session_id, role, content, message_index, fail)
  /\ UNCHANGED <<nextUuid, pc, rw, lastCall>>

\* ---- SessionManager.delete_session ----
\* the ownership check: a row was fetched and its user_login is the caller's
Owns(session_id, user_login) ==
  Stored(session_id) /\ sessions[session_id].user_login = user_login

\* the two DELETEs, committed together
DeleteCommit(session_id) ==
  /\ messages' = DeleteRows(messages, session_id)
  /\ sessions' = Remove(sessions, session_id)
  /\ saved' = Remove(saved, session_id)

FailModes == {"no", "messages", "session"}

\* where a delete_session that deletes nothing returns False: after the
\* ownership check, or in the except clause
DeletePath(session_id, user_login) ==
  IF ~Owns(session_id, user_login) THEN "refused" ELSE "rolled back"

\* mutant: the fetched user_login is not compared with the caller's
delete_session_AnyUser(session_id, user_login, fail) ==
  /\ IF Stored(session_id) /\ fail = "no"
     THEN /\ DeleteCommit(session_id)
          /\ lastCall' = [op |-> "delete_session", path |-> "deleted", ret |-> TRUE]
     ELSE /\ UNCHANGED <<sessions, messages, saved>>
          /\ lastCall' = [op |-> "delete_session", path |-> DeletePath(session_id, user_login),
                          ret |-> FALSE]
  /\ UNCHANGED <<nextUuid, now, pc, rw>>

\* mutant: each DELETE is committed on its own, so a failure of the second
\* one leaves the first one done
delete_session_NoRollback(session_id, user_login, fail) ==
  /\ IF Owns(session_id, user_login) /\ fail = "no"
     THEN /\ DeleteCommit(session_id)
          /\ lastCall' = [op |-> "delete_session", path |-> "deleted", ret |-> TRUE]
     ELSE /\ messages' = IF Owns(session_id, user_login) /\ fail = "session"
                         THEN DeleteRows(messages, session_id) ELSE messages
          /\ UNCHANGED <<sessions, saved>>
          /\ lastCall' = [op |-> "delete_session", path |-> DeletePath(session_id, user_login),
                          ret |-> FALSE]
  /\ UNCHANGED <<nextUuid, now, pc, rw>>

\* fail: "no", or the DELETE that raises (the transaction is then rolled back)
delete_session(session_id, user_login, fail) ==
  /\ IF Owns(session_id, user_login) /\ fail = "no"
     THEN /\ DeleteCommit(session_id)
          /\ lastCall' = [op |-> "delete_session", path |-> "deleted", ret |-> TRUE]
     ELSE /\ UNCHANGED <<sessions, messages, saved>>
          /\ lastCall' = [op |-> "delete_session", path |-> DeletePath(session_id, user_login),
                          ret |-> FALSE]
  /\ UNCHANGED <<nextUuid, now, pc, rw>>

\* ---- SessionManager.update_session_title ----
UpdateTitle(sess, session_id, new_title, t) ==
  IF session_id \in DOMAIN sess
  THEN [sess EXCEPT ![session_id].session_title = new_title,
                    ![session_id].last_updated = t]
  ELSE sess

\* one transaction: the UPDATE, or nothing when it raises (the exception is
\* swallowed and nothing is returned)
update_session_title(session_id, new_title, fail) ==
  /\ IF fail
     THEN UNCHANGED <<sessions, now>>
     ELSE \E t \in Tick(now) :
            /\ sessions' = UpdateTitle(sessions, session_id, new_title, t)
            /\ now' = t
  /\ UNCHANGED <<messages, nextUuid, pc, rw, saved, lastCall>>

\* ---- SessionManager.archive_session ----
\* UPDATE ... SET is_active = 0, last_updated = ? WHERE session_id = ? AND user_login = ?
ArchiveUpdate(sess, session_id, user_login, t) ==
  [sid \in DOMAIN sess |->
     IF sid = session_id /\ sess[sid].user_login = user_login
     THEN [sess[sid] EXCEPT !.is_active = FALSE, !.last_updated = t]
     ELSE sess[sid]]

\* cursor.rowcount of that UPDATE: the rows its WHERE clause matched
ArchiveRowcount(sess, session_id, user_login) ==
  Cardinality({sid \in DOMAIN sess : sid = session_id /\ sess[sid].user_login = user_login})

\* mutant: the WHERE clause does not name the owner
archive_session_AnyUser(session_id, user_login, fail) ==
  /\ IF fail
     THEN /\ UNCHANGED <<sessions, now>>
          /\ lastCall' = [op |-> "archive_session", path |-> "rolled back", ret |-> FALSE]
     ELSE \E t \in Tick(now) :
            /\ sessions' = IF Stored(session_id)
                           THEN [sessions EXCEPT ![session_id].is_active = FALSE,
                                                 ![session_id].last_updated = t]
                           ELSE sessions
            /\ now' = t
            /\ lastCall' = [op |-> "archive_session", path |-> "updated",
                            ret |-> Stored(session_id)]
  /\ UNCHANGED <<messages, nextUuid, pc, rw, saved>>

archive_session(session_id, user_login, fail) ==
  /\ IF fail
     THEN /\ UNCHANGED <<sessions, now>>
          /\ lastCall' = [op |-> "archive_session", path |-> "rolled back", ret |-> FALSE]
     ELSE \E t \in Tick(now) :
            /\ sessions' = ArchiveUpdate(sessions, session_id, user_login, t)
            /\ now' = t
            /\ lastCall' = [op |-> "archive_session", path |-> "updated",
                            ret |-> ArchiveRowcount(sessions, session_id, user_login) > 0]
  /\ UNCHANGED <<messages, nextUuid, pc, rw, saved>>

\* ---- SessionManager.get_user_sessions ----
\* WHERE user_login = ? AND is_active = 1
ListedIds(sess, user_login) ==
  {sid \in DOMAIN sess : sess[sid].user_login = user_login /\ sess[sid].is_active}

\* ORDER BY last_updated DESC: every order of the selected rows with
\* last_updated descending (SQL leaves the order of equal keys open)
OrderingsByLastUpdatedDesc(sess, ids) ==
  {f \in [1..Cardinality(ids) -> ids] :
     /\ \A i, j \in 1..Cardinality(ids) : i # j => f[i] # f[j]
     /\ \A i, j \in 1..Cardinality(ids) :
          i < j => sess[f[i]].last_updated >= sess[f[j]].last_updated}

\* LIMIT ?: the first `limit` rows; SQLite reads a negative LIMIT as no limit
Limit(rows, limit) ==
  IF limit < 0 \/ limit >= Len(rows) THEN rows ELSE SubSeq(rows, 1, limit)

\* mutant: archived sessions are listed too
GetUserSessionsFrom_Archived(sess, user_login, limit) ==
  {Limit(f, limit) :
     f \in OrderingsByLastUpdatedDesc(sess,
             {sid \in DOMAIN sess : sess[sid].user_login = user_login})}

\* the results the query can return, as sequences of session_id (the other
\* keys of each dictionary are the columns of that session's row)
GetUserSessionsFrom(sess, user_login, limit) ==
  {Limit(f, limit) : f \in OrderingsByLastUpdatedDesc(sess, ListedIds(sess, user_login))}

get_user_sessions(user_login, limit) == GetUserSessionsFrom(sessions, user_login, limit)

\* ---- save_current_session (session_ui.py) ----
\* next(msg["content"] for msg in messages if msg["role"] == "user", None)
\* (None is modelled as the empty text, which the caller's `if` rejects alike)
FirstUserMessage(M) ==
  LET users == SelectSeq(M, LAMBDA m : m.role = "user")
  IN  IF users = <<>> THEN "" ELSE users[1].content

\* the guard of save_current_session: nothing to do without a session or messages
ReturnsEarly(current_session_id, M) == current_session_id = None \/ M = <<>>

\* the guard and the first transaction: DELETE FROM chat_messages, commit.
\* When the DELETE raises, the except clause ends the call.
SaveCurrentSessionDelete(current_session_id, M, fail) ==
  /\ pc = "idle"
  /\ IF ReturnsEarly(current_session_id, M) \/ fail
     THEN /\ ReturnsEarly(current_session_id, M) => ~fail
          /\ lastCall' = [op |-> "save_current_session",
                          path |-> IF fail THEN "rolled back" ELSE "nothing to save",
                          ret |-> None]
          /\ UNCHANGED <<messages, saved, pc, rw>>
     ELSE /\ messages' = DeleteRows(messages, current_session_id)
          /\ saved' = IF current_session_id \in DOMAIN saved
                       THEN [saved EXCEPT ![current_session_id] = Wiped] ELSE saved
          /\ pc' = "saving"
          /\ rw' = [sid |-> current_session_id, msgs |-> M, i |-> 1,
                    old |-> load_session_messages(current_session_id), failed |-> FALSE]
          /\ UNCHANGED lastCall
  /\ UNCHANGED <<sessions, nextUuid, now>>

\* one turn of the loop: save_message(current_session_id, role, content, i),
\* which swallows its own exception, so the loop goes on after a failure
SaveCurrentSessionSave(fail) ==
  /\ pc = "saving"
  /\ Len(messages) < MaxRows
  /\ LET m == rw.msgs[rw.i]
     IN SaveMessageEffect(rw.sid, m.role, m.content, rw.i - 1, fail)
  /\ rw' = [rw EXCEPT !.i = @ + 1, !.failed = @ \/ fail]
  /\ pc' = IF rw.i = Len(rw.msgs) THEN "title" ELSE "saving"
  /\ UNCHANGED <<nextUuid, lastCall>>

\* the title update after the loop, and the return
SaveCurrentSessionTitle(session_needs_title, fail) ==
  /\ pc = "title"
  /\ IF session_needs_title /\ FirstUserMessage(rw.msgs) # ""
     THEN IF fail
          THEN UNCHANGED <<sessions, now>>
          ELSE \E t \in Tick(now) :
                 /\ sessions' = UpdateTitle(sessions, rw.sid,
                                   generate_session_title(FirstUserMessage(rw.msgs)), t)
                 /\ now' = t
     ELSE /\ ~fail
          /\ UNCHANGED <<sessions, now>>
  /\ pc' = "idle"
  /\ rw' = NoRw
  /\ lastCall' = [op |-> "save_current_session", path |-> "returned", ret |-> None]
  /\ UNCHANGED <<messages, nextUuid, saved>>

\* ---- the store's operations, called by any handler ----
\* a caller can name only identifiers that uuid4() has returned
Issued == 1..(nextUuid - 1)

\* The inputs of the calls.  A statement can fail only where the code executes
\* one: the DELETEs of delete_session run only after the ownership check.  A
\* save_message whose transaction is rolled back has the same effect whatever
\* message it carried, so one message stands for all.
DeleteFailModes(sid, u) == IF Owns(sid, u) THEN FailModes ELSE {"no"}
AnyMsg == [role |-> "user", content |-> "Hello"]

\* sessions are created for CURRENT_USER, the only user the UI knows; any user
\* may ask for a deletion
CallCreate ==
  /\ \E fail \in BOOLEAN : create_new_session(CURRENT_USER, None, fail)
  /\ UNCHANGED <<historyVars, uiVars>>
CallSave ==
  /\ \E sid \in Issued, m \in Msgs, i \in Indices :
       save_message(sid, m.role, m.content, i, FALSE)
  /\ UNCHANGED <<historyVars, uiVars>>
CallSaveFails ==
  /\ \E sid \in Issued : save_message(sid, AnyMsg.role, AnyMsg.content, 0, TRUE)
  /\ UNCHANGED <<historyVars, uiVars>>
CallDelete ==
  /\ \E sid \in Issued, u \in Users :
       \E fail \in DeleteFailModes(sid, u) : delete_session(sid, u, fail)
  /\ UNCHANGED <<historyVars, uiVars>>

Next ==
  \/ CallCreate
  \/ CallSave
  \/ CallSaveFails
  \/ CallDelete

Spec == Init /\ [][Next]_vars

\* ---- the whole SessionManager: the operations above, the title update of
\* ---- the chat turn and of the title editor, and archive_session, which the
\* ---- manager offers to any caller
Titles == {generate_session_title("Hello")}
Limits == 0..2                            \* limit arguments (the UI passes 1, 50 and 100)

CallUpdateTitle ==
  /\ \E sid \in Issued, title \in Titles, fail \in BOOLEAN :
       update_session_title(sid, title, fail)
  /\ UNCHANGED <<historyVars, uiVars>>
CallArchive ==
  /\ \E sid \in Issued, u \in Users, fail \in BOOLEAN : archive_session(sid, u, fail)
  /\ UNCHANGED <<historyVars, uiVars>>

NextStore ==
  \/ CallCreate
  \/ CallSave
  \/ CallSaveFails
  \/ CallDelete
  \/ CallUpdateTitle
  \/ CallArchive

SpecStore == Init /\ [][NextStore]_vars

\* ---- the store's operations and the UI's full-session rewrite, one handler
\* ---- at a time
NextRewrite ==
  \/ pc = "idle" /\ CallCreate
  \/ pc = "idle" /\ CallSave
  \/ pc = "idle" /\ CallSaveFails
  \/ pc = "idle" /\ CallDelete
  \/ /\ \E sid \in {None} \cup Issued, M \in Transcripts, fail \in BOOLEAN :
          SaveCurrentSessionDelete(sid, M, fail)
     /\ UNCHANGED <<historyVars, uiVars>>
  \/ /\ \E fail \in BOOLEAN : SaveCurrentSessionSave(fail)
     /\ UNCHANGED <<historyVars, uiVars>>
  \/ /\ \E needs_title \in BOOLEAN, fail \in BOOLEAN :
          SaveCurrentSessionTitle(needs_title, fail)
     /\ UNCHANGED <<historyVars, uiVars>>

SpecRewrite == Init /\ [][NextRewrite]_vars

\* ======================= the search history =======================
\* search_history.db and SearchHistoryManager (src/search_history.py).  The
\* user_query and notes columns are carried by no operation below and are
\* left out of the rows.

\* ---- JSON values and Python objects ----
\* a text is the sequence of its characters; a value is null, a text or a list
Null == [t |-> "null", v |-> <<>>]
Str(chars) == [t |-> "str", v |-> chars]
List(items) == [t |-> "list", v |-> items]

\* Python truth value: None, "" and [] are false
Truthy(x) == x.t # "null" /\ x.v # <<>>

\* dict.get(key, default): the default only when the key is missing; a key
\* that is present with the value null yields None
Get(obj, key, default) == IF key \in DOMAIN obj THEN obj[key] ELSE default

\* json.dumps(value), the text stored in a JSON column, and json.loads of it:
\* dumps(None) is the text "null", and loads gives None back
JsonDumps(value) == [json |-> value]
JsonLoads(text) == text.json

\* entries of price_details: a text (what DataInsights declares), or an
\* object with a "value" key (what _format_price_range reads)
PriceText == [t |-> "str", value |-> 0]
PriceDict(n) == [t |-> "dict", value |-> n]

\* ---- the Record Extraction Adapter: chain.invoke and the tool call it returns ----
Keys == {"product_brand", "product_model", "price_details", "vendors", "verified_urls"}
EmptyObject == [k \in {} |-> Null]
AllNull == [k \in Keys |-> Null]
WebHit ==
  [product_brand |-> Str(<<"H", "P">>), product_model |-> Str(<<"A", "1">>),
   price_details |-> List(<<PriceDict(5), PriceDict(7)>>),
   vendors |-> List(<<"vendor">>), verified_urls |-> List(<<"http://u">>)]
SamePriceTwice ==
  [product_brand |-> Str(<<"h", "p">>), product_model |-> Str(<<"B", "2">>),
   price_details |-> List(<<PriceDict(5), PriceDict(5)>>),
   vendors |-> List(<<"vendor">>), verified_urls |-> List(<<>>)]
TextPrices ==
  [product_brand |-> Str(<<"K">>),
   price_details |-> List(<<PriceText>>), verified_urls |-> Null]

\* what the adapter does: chain.invoke raises (an API error, a timeout), the
\* reply has no tool call, its arguments are not JSON, or they parse
AdapterOutcomes ==
  {[kind |-> "raises", json |-> EmptyObject],
   [kind |-> "no tool call", json |-> EmptyObject],
   [kind |-> "unparsable", json |-> EmptyObject]}
  \cup {[kind |-> "parsed", json |-> o] :
          o \in {EmptyObject, AllNull, WebHit, SamePriceTwice, TextPrices}}

\* ---- SearchHistoryManager.extract_product_info (after chain.invoke returned) ----
ParsedJson(outcome) == IF outcome.kind = "parsed" THEN outcome.json ELSE EmptyObject

extract_product_info(outcome) ==
  LET parsed_json == ParsedJson(outcome)
      verified_urls == Get(parsed_json, "verified_urls", List(<<>>))
  IN  [product_brand |-> Get(parsed_json, "product_brand", Str(<<>>)),
       product_model |-> Get(parsed_json, "product_model", Str(<<>>)),
       price_details |-> Get(parsed_json, "price_details", List(<<>>)),
       vendors       |-> Get(parsed_json, "vendors", List(<<>>)),
       verified_urls |-> verified_urls,
       source        |-> IF Truthy(verified_urls) THEN "web" ELSE "database"]

\* ---- SearchHistoryManager.log_search ----
SessionIds == {"s1", "s2"}               \* session_id arguments

\* mutant: INTEGER PRIMARY KEY without AUTOINCREMENT, one more than the
\* largest record_id in the table
NextRecordId_MaxRowid == Len(history) + 1

\* AUTOINCREMENT: one more than the largest record_id the table ever used,
\* which SQLite keeps in sqlite_sequence and no DELETE lowers
NextRecordId == seq + 1

\* the INSERT: the row it adds; timestamp is the column's DEFAULT CURRENT_TIMESTAMP
InsertRecord(h, parsed_data, source, session_id, timestamp) ==
  Append(h, [record_id     |-> NextRecordId,
             timestamp     |-> timestamp,
             product_brand |-> parsed_data.product_brand,
             product_model |-> parsed_data.product_model,
             price_details |-> JsonDumps(parsed_data.price_details),
             vendors       |-> JsonDumps(parsed_data.vendors),
             verified_urls |-> JsonDumps(parsed_data.verified_urls),
             source        |-> source,
             session_id    |-> session_id])

\* mutant: the source argument of the caller is what gets stored
log_search_SourceArgument(session_id, source, outcome, fail) ==
  /\ seq < MaxRecords
  /\ IF outcome.kind = "raises" \/ fail
     THEN /\ lastLog' = [ret |-> -1, source |-> source]
          /\ UNCHANGED <<history, utc, seq>>
     ELSE \E t \in Tick(utc) :
            /\ history' = InsertRecord(history, extract_product_info(outcome), source,
                                       session_id, t)
            /\ utc' = t
            /\ seq' = NextRecordId
            /\ lastLog' = [ret |-> NextRecordId, source |-> source]
  /\ UNCHANGED <<lastExport, lastClear>>

\* the whole body is one try block: an exception of extract_product_info
\* (chain.invoke is not guarded there) and an exception of the INSERT or the
\* commit both end in the except clause, which returns -1; the source argument
\* is overwritten by the extracted one before it is used
log_search(session_id, source, outcome, fail) ==
  /\ seq < MaxRecords
  /\ IF outcome.kind = "raises" \/ fail
     THEN /\ lastLog' = [ret |-> -1, source |-> source]
          /\ UNCHANGED <<history, utc, seq>>
     ELSE \E t \in Tick(utc) :
            LET parsed_data == extract_product_info(outcome)
            IN  /\ history' = InsertRecord(history, parsed_data, parsed_data.source,
                                           session_id, t)
                /\ utc' = t
                /\ seq' = NextRecordId
                /\ lastLog' = [ret |-> NextRecordId, source |-> source]
  /\ UNCHANGED <<lastExport, lastClear>>

\* ---- log_interaction (agent.py) ----
\* an agent response, as the set of the keywords it contains; {} is also the
\* empty response
Responses == SUBSET {"http", "price"}

\* the source log_interaction derives from the response text
KeywordSource(agent_response) ==
  IF "http" \in agent_response
  THEN IF "price" \in agent_response THEN "both" ELSE "web"
  ELSE "database"

log_interaction(agent_response, session_id, outcome, fail) ==
  log_search(session_id, KeywordSource(agent_response), outcome, fail)

\* ---- SearchHistoryManager.get_search_history ----
\* SQLite's LIKE compares ASCII letters without regard to case
LowerChar(c) ==
  CASE c = "H" -> "h" [] c = "P" -> "p" [] c = "A" -> "a" [] c = "B" -> "b"
    [] c = "K" -> "k" [] OTHER -> c

Lower(chars) == [k \in 1..Len(chars) |-> LowerChar(chars[k])]

\* text LIKE pattern: in the pattern, % stands for any run of characters and
\* _ for any one character
RECURSIVE Like(_, _)
Like(pattern, text) ==
  IF pattern = <<>> THEN text = <<>>
  ELSE IF pattern[1] = "%"
       THEN Like(Tail(pattern), text) \/ (text # <<>> /\ Like(pattern, Tail(text)))
       ELSE /\ text # <<>>
            /\ pattern[1] = "_" \/ LowerChar(pattern[1]) = LowerChar(text[1])
            /\ Like(Tail(pattern), Tail(text))

\* column LIKE '%' || filter || '%': a NULL column matches nothing
LikeFilter(column, filter) ==
  column.t = "str" /\ Like(<<"%">> \o filter \o <<"%">>, column.v)

\* a datetime argument: whole seconds and microseconds; None is NoDate
NoDate == [sec |-> -1, micro |-> -1]
\* strftime("%Y-%m-%d %H:%M:%S"): the microseconds are dropped.  The stored
\* timestamps have the same layout, so the texts compare as the seconds do.
Strftime(d) == d.sec

\* no filter given: None or "" for the texts (both are false to the ifs), None
\* for the datetimes
NoFilters ==
  [brand_filter |-> <<>>, model_filter |-> <<>>, date_from |-> NoDate, date_to |-> NoDate,
   session_id |-> ""]

\* the WHERE clause built from the filters that were given
Where(row, f) ==
  /\ f.brand_filter # <<>> => LikeFilter(row.product_brand, f.brand_filter)
  /\ f.model_filter # <<>> => LikeFilter(row.product_model, f.model_filter)
  /\ f.date_from # NoDate => row.timestamp >= Strftime(f.date_from)
  /\ f.date_to # NoDate => row.timestamp <= Strftime(f.date_to)
  /\ f.session_id # "" => row.session_id = f.session_id

\* ORDER BY timestamp DESC.  Rows with the same timestamp come in the order
\* of the scan the statement uses, which is fixed for a statement and a
\* database: record_id ascending (the sorter keeps the scan order) or
\* descending (idx_timestamp read backwards).
TieOrders == {"asc", "desc"}

InsertByTimestamp(s, r, tie) ==
  LET before == SelectSeq(s, LAMBDA x : IF tie = "asc" THEN x.timestamp >= r.timestamp
                                                       ELSE x.timestamp > r.timestamp)
      after  == SelectSeq(s, LAMBDA x : IF tie = "asc" THEN x.timestamp < r.timestamp
                                                       ELSE x.timestamp <= r.timestamp)
  IN  before \o <<r>> \o after

\* mutant: the ORDER BY clause is missing, rows come back in record_id order
OrderByTimestampDesc_Unordered(s, tie) == s

RECURSIVE OrderByTimestampDesc(_, _)
OrderByTimestampDesc(s, tie) ==
  IF s = <<>> THEN <<>>
  ELSE InsertByTimestamp(OrderByTimestampDesc(SubSeq(s, 1, Len(s) - 1), tie), s[Len(s)], tie)

\* OFFSET ?: the rows after the first `offset`
Offset(rows, offset) ==
  IF offset <= 0 THEN rows ELSE SubSeq(rows, offset + 1, Len(rows))

\* the dictionary built for a fetched row: the JSON columns are parsed (they
\* always hold the text json.dumps wrote, so neither the `or '[]'` nor the
\* except branch is taken)
Record(row) ==
  [row EXCEPT !.price_details = JsonLoads(@),
              !.vendors = JsonLoads(@),
              !.verified_urls = JsonLoads(@)]

GetSearchHistoryFrom(h, limit, offset, f, tie) ==
  LET rows == Limit(Offset(OrderByTimestampDesc(SelectSeq(h, LAMBDA r : Where(r, f)), tie),
                           offset), limit)
  IN  [k \in 1..Len(rows) |-> Record(rows[k])]

get_search_history(limit, offset, f, tie) == GetSearchHistoryFrom(history, limit, offset, f, tie)

\* ---- SearchHistoryManager._format_price_range ----
Raised == [text |-> "raised", lo |-> 0, hi |-> 0]

RECURSIVE SeqMin(_)
SeqMin(q) == IF Len(q) = 1 THEN q[1] ELSE Min(q[1], SeqMin(Tail(q)))
RECURSIVE SeqMax(_)
SeqMax(q) == IF Len(q) = 1 THEN q[1] ELSE -Min(-q[1], -SeqMax(Tail(q)))

\* p['value'] of a text raises TypeError; one price is formatted alone, any
\* other number of prices as "$min - $max"
format_price_range(price_details) ==
  IF ~Truthy(price_details) THEN [text |-> "No prices", lo |-> 0, hi |-> 0]
  ELSE IF \E k \in 1..Len(price_details.v) : price_details.v[k].t # "dict" THEN Raised
  ELSE LET prices == [k \in 1..Len(price_details.v) |-> price_details.v[k].value]
       IN  IF Len(prices) = 1
           THEN [text |-> "$lo", lo |-> prices[1], hi |-> prices[1]]
           ELSE [text |-> "$lo - $hi", lo |-> SeqMin(prices), hi |-> SeqMax(prices)]

\* ---- SearchHistoryManager.export_to_csv ----
ExportLimit == 10000

\* the row built for a record; len() and ', '.join() raise TypeError on None
CsvRow(record) ==
  IF \/ record.price_details.t # "list"
     \/ record.vendors.t # "list"
     \/ record.verified_urls.t # "list"
     \/ format_price_range(record.price_details) = Raised
  THEN [record_id |-> record.record_id, price_range |-> Raised]
  ELSE [record_id |-> record.record_id,
        price_range |-> format_price_range(record.price_details)]

\* what the call returns and the rows of the file it wrote: no file for an
\* empty history, and none when building any row raised (the except clause
\* returns None before anything is written)
ExportResult(records) ==
  LET csv_data == [k \in 1..Len(records) |-> CsvRow(records[k])]
  IN  IF records = <<>> \/ \E k \in 1..Len(csv_data) : csv_data[k].price_range = Raised
      THEN [ret |-> "None", rows |-> <<>>]
      ELSE [ret |-> "filename", rows |-> csv_data]

export_to_csv ==
  /\ \E tie \in TieOrders :
       lastExport' = ExportResult(get_search_history(ExportLimit, 0, NoFilters, tie))
  /\ UNCHANGED <<history, utc, lastLog, seq, lastClear>>

\* ---- SearchHistoryManager.clear_history ----
\* The model's clock counts half days: timedelta(days=d) is d * Day of them.
Day == 2
NoDays == -1                             \* days_to_keep = None
\* datetime.now() is the host's local time, CURRENT_TIMESTAMP is UTC: the
\* zone is what local time is ahead of UTC, in units of the clock
Zones == {0, 1}

\* cutoff_date is local time less the days to keep (strftime keeps the
\* seconds); DELETE FROM search_history [WHERE timestamp < ?]
DeleteOlder(h, days_to_keep, t, zone) ==
  LET cutoff_date == (t + zone) - days_to_keep * Day
  IN  IF days_to_keep = NoDays THEN <<>>
      ELSE SelectSeq(h, LAMBDA r : ~(r.timestamp < cutoff_date))

\* one transaction: the DELETE and its commit, or the except clause, which
\* returns False with the table as it was
clear_history(days_to_keep, zone, fail) ==
  \E t \in Tick(utc) :
    /\ history' = IF fail THEN history
                  ELSE DeleteOlder(history, days_to_keep, t, zone)
    /\ utc' = t
    /\ lastClear' = [op |-> "clear_history", days_to_keep |-> days_to_keep,
                     zone |-> zone, at |-> t, ret |-> ~fail]
    /\ UNCHANGED <<lastLog, lastExport, seq>>

\* ---- the search history's operations ----
CallLog ==
  /\ \E agent_response \in Responses, session_id \in SessionIds,
        outcome \in AdapterOutcomes, fail \in BOOLEAN :
       log_interaction(agent_response, session_id, outcome, fail)
  /\ UNCHANGED <<storeVars, uiVars>>
CallExport ==
  /\ export_to_csv
  /\ UNCHANGED <<storeVars, uiVars>>

NextHistory ==
  \/ CallLog
  \/ CallExport

SpecHistory == Init /\ [][NextHistory]_vars

\* ... and with clear_history
CallClear ==
  /\ \E days_to_keep \in {NoDays, 0, 1}, zone \in Zones, fail \in BOOLEAN :
       clear_history(days_to_keep, zone, fail)
  /\ UNCHANGED <<storeVars, uiVars>>

NextClear ==
  \/ CallLog
  \/ CallExport
  \/ CallClear

SpecClear == Init /\ [][NextClear]_vars

\* ======================= the user interface =======================
\* The handlers of app.py and session_ui.py: each runs in the script of one
\* browser session, reads and writes its st.session_state (ui[h]) and calls
\* the two stores.  No statement of the session store fails here (what a
\* failure does is the subject of the specifications above); the history
\* logging of a chat turn may fail.

\* ---- the session store's operations as functions of the database ----
Db == [sessions |-> sessions, messages |-> messages, nextUuid |-> nextUuid]

\* SessionManager.create_new_session: the row is stored under the next uuid4()
DbCreateSession(D, user_login, t) ==
  [D EXCEPT !.sessions = CreateInsert(@, D.nextUuid, user_login, None, t, t),
            !.nextUuid = @ + 1]

\* SessionManager.save_message: the INSERT and the UPDATE of the statistics
DbSaveMessage(D, session_id, role, content, message_index, t) ==
  IF foreign_keys /\ session_id \notin DOMAIN D.sessions THEN D
  ELSE LET msgs == InsertMessage(D.messages, session_id, role, content, message_index)
       IN  [D EXCEPT !.messages = msgs,
                     !.sessions = UpdateStatistics(@, msgs, session_id, t)]

\* SessionManager.delete_session: the value it returns, and the database after it
DbOwns(D, session_id, user_login) ==
  session_id \in DOMAIN D.sessions /\ D.sessions[session_id].user_login = user_login

DbDeleteSession(D, session_id, user_login) ==
  IF DbOwns(D, session_id, user_login)
  THEN [D EXCEPT !.messages = DeleteRows(@, session_id),
                 !.sessions = Remove(@, session_id)]
  ELSE D

\* load_session_messages, converted "to Streamlit format"
Transcript(D, session_id) ==
  LET loaded == LoadFrom(D.messages, session_id)
  IN  [k \in 1..Len(loaded) |-> [role |-> loaded[k].role, content |-> loaded[k].content]]

\* ---- session_ui.save_current_session ----
\* for i, message in enumerate(messages): save_message(..., i)
RECURSIVE SaveEach(_, _, _, _, _)
SaveEach(D, session_id, M, k, t) ==
  IF k > Len(M) THEN D
  ELSE SaveEach(DbSaveMessage(D, session_id, M[k].role, M[k].content, k - 1, t),
                session_id, M, k + 1, t)

\* the DELETE, the loop and the title update; the result is the database and
\* the handler's state after the call
save_current_session(D, U, t) ==
  IF ReturnsEarly(U.current_session_id, U.messages) THEN [db |-> D, ui |-> U]
  ELSE LET deleted == [D EXCEPT !.messages = DeleteRows(@, U.current_session_id)]
           written == SaveEach(deleted, U.current_session_id, U.messages, 1, t)
           first_user_message == FirstUserMessage(U.messages)
       IN  IF U.session_needs_title /\ first_user_message # ""
           THEN [db |-> [written EXCEPT !.sessions =
                           UpdateTitle(@, U.current_session_id,
                                       generate_session_title(first_user_message), t)],
                 ui |-> [U EXCEPT !.session_needs_title = FALSE]]
           ELSE [db |-> written, ui |-> U]

\* ---- session_ui.save_current_session_if_needed ----
\* the transcript is taken to be saved when as many rows are stored as it has
\* messages
save_current_session_if_needed(D, U, t) ==
  IF U.messages = <<>> \/ U.current_session_id = None THEN [db |-> D, ui |-> U]
  ELSE IF Len(U.messages) # Len(LoadFrom(D.messages, U.current_session_id))
       THEN save_current_session(D, U, t)
       ELSE [db |-> D, ui |-> U]

\* ---- session_ui.create_new_session ----
ui_create_new_session(D, U, user_login, t) ==
  LET kept == save_current_session_if_needed(D, U, t)
  IN  [db |-> DbCreateSession(kept.db, user_login, t),
       ui |-> [current_session_id |-> kept.db.nextUuid, messages |-> <<>>,
               session_needs_title |-> TRUE]]

\* ---- session_ui.load_session ----
load_session(D, U, session_id, t) ==
  LET kept == save_current_session_if_needed(D, U, t)
  IN  [db |-> kept.db,
       ui |-> [current_session_id |-> session_id,
               messages |-> Transcript(kept.db, session_id),
               session_needs_title |-> FALSE]]

\* ---- session_ui.handle_session_deletion, the Delete button ----
\* create_new_session ends in st.rerun(), which ends the script run
handle_session_deletion(D, U, deleting_session, user_login, t) ==
  IF DbOwns(D, deleting_session, user_login) /\ deleting_session = U.current_session_id
  THEN ui_create_new_session(DbDeleteSession(D, deleting_session, user_login), U, user_login, t)
  ELSE [db |-> DbDeleteSession(D, deleting_session, user_login), ui |-> U]

\* ---- app.enhanced_reset_chat_history ----
enhanced_reset_chat_history(D, U, t) ==
  LET kept == save_current_session(D, U, t)
  IN  ui_create_new_session(kept.db, [kept.ui EXCEPT !.messages = <<>>], CURRENT_USER, t)

\* ---- the chat turn of app.py ----
Response == "Hi there"                   \* full_response, it names no URL and no price
Apology == "Sorry"                       \* "Sorry, I encountered an error ..."

\* mutant: neither log_search nor log_interaction catches, the exception reaches
\* the except clause of the chat turn
log_interaction_raises_Uncaught(outcome, fail) == outcome.kind = "raises" \/ fail

\* log_interaction returns normally whatever happened: log_search returns -1
\* from its except clause, and log_interaction has an except clause of its own
log_interaction_raises(outcome, fail) == FALSE

\* full_response_content after the try block
FullResponseContent(agent, outcome, fail) ==
  IF agent = "responds" /\ ~log_interaction_raises(outcome, fail) THEN Response ELSE Apology

\* mutant: the user message is appended to the transcript and not saved
ChatTurnStore_UserNotSaved(D, U, prompt, content, t1, t2) ==
  LET sid == U.current_session_id
      answered == U.messages \o <<[role |-> "user", content |-> prompt],
                                  [role |-> "assistant", content |-> content]>>
  IN  [db |-> DbSaveMessage(D, sid, "assistant", content, Len(answered) - 1, t2),
       ui |-> [U EXCEPT !.messages = answered, !.session_needs_title = FALSE]]

\* the user message is appended and saved, the agent answers or raises, the
\* assistant message is appended and saved, the title is written when the
\* session still needs one
ChatTurnStore(D, U, prompt, content, t1, t2) ==
  LET sid == U.current_session_id
      asked == Append(U.messages, [role |-> "user", content |-> prompt])
      d1 == DbSaveMessage(D, sid, "user", prompt, Len(asked) - 1, t1)
      answered == Append(asked, [role |-> "assistant", content |-> content])
      d2 == DbSaveMessage(d1, sid, "assistant", content, Len(answered) - 1, t2)
  IN  [db |-> IF U.session_needs_title
              THEN [d2 EXCEPT !.sessions = UpdateTitle(@, sid, generate_session_title(prompt), t2)]
              ELSE d2,
       ui |-> [U EXCEPT !.messages = answered, !.session_needs_title = FALSE]]

\* ---- the actions of request handler h ----
MaxTurns == 1     \* a chat turn starts while the transcript holds fewer turns
UserTitles == {<<"My title">>}            \* what the user types into the title editor
AutoSaveEvery == 2   \* the auto-save period (10 messages in app.py), scaled to MaxTurns

\* the frame of an action that leaves the search history alone
Becomes(h, R, t, last) ==
  /\ sessions' = R.db.sessions
  /\ messages' = R.db.messages
  /\ nextUuid' = R.db.nextUuid
  /\ now' = t
  /\ ui' = [ui EXCEPT ![h] = R.ui]
  /\ lastUi' = last
  /\ UNCHANGED <<pc, rw, saved, lastCall, download, titled>>

\* initialize_session_for_user, on the first script run of the handler
Initialize(h) ==
  /\ ui[h].current_session_id = None
  /\ \E listed \in get_user_sessions(CURRENT_USER, 1), t \in Tick(now) :
       IF listed # <<>>
       THEN Becomes(h, [db |-> Db,
                        ui |-> [current_session_id |-> listed[1],
                                messages |-> Transcript(Db, listed[1]),
                                session_needs_title |-> FALSE]],
                    t, [NoUi EXCEPT !.op = "initialize", !.h = h, !.sid = listed[1]])
       ELSE /\ nextUuid <= MaxUuid
            /\ Becomes(h, [db |-> DbCreateSession(Db, CURRENT_USER, t),
                           ui |-> [current_session_id |-> nextUuid, messages |-> <<>>,
                                   session_needs_title |-> TRUE]],
                       t, [NoUi EXCEPT !.op = "initialize", !.h = h, !.sid = nextUuid])
  /\ UNCHANGED historyVars

ChatTurn(h) ==
  /\ ui[h].current_session_id # None
  /\ Len(ui[h].messages) < 2 * MaxTurns
  /\ \E prompt \in {"Hello"}, agent \in {"responds", "raises"}, fail \in BOOLEAN,
        outcome \in {[kind |-> "raises", json |-> EmptyObject],
                     [kind |-> "parsed", json |-> WebHit]},
        t1 \in Tick(now) : \E t2 \in Tick(t1) :
       /\ Becomes(h, ChatTurnStore(Db, ui[h], prompt, FullResponseContent(agent, outcome, fail),
                                   t1, t2),
                  t2, [op |-> "chat turn", h |-> h, sid |-> ui[h].current_session_id,
                       agent |-> agent,
                       log |-> IF agent = "raises" THEN "none"
                               ELSE IF outcome.kind = "raises" THEN "extraction failed"
                               ELSE IF fail THEN "storage failed" ELSE "logged",
                       open |-> FALSE])
       /\ IF agent = "responds"
          THEN log_interaction({}, ui[h].current_session_id, outcome, fail)
          ELSE outcome.kind = "raises" /\ ~fail /\ UNCHANGED historyVars

\* the "New Session" button
NewSession(h) ==
  /\ ui[h].current_session_id # None
  /\ nextUuid <= MaxUuid
  /\ \E t \in Tick(now) :
       Becomes(h, ui_create_new_session(Db, ui[h], CURRENT_USER, t), t,
               [NoUi EXCEPT !.op = "new session", !.h = h, !.sid = nextUuid])
  /\ UNCHANGED historyVars

\* the button of a listed session
LoadSession(h) ==
  /\ ui[h].current_session_id # None
  /\ \E session_id \in ListedIds(sessions, CURRENT_USER), t \in Tick(now) :
       Becomes(h, load_session(Db, ui[h], session_id, t), t,
               [NoUi EXCEPT !.op = "load session", !.h = h, !.sid = session_id])
  /\ UNCHANGED historyVars

\* "Clear Current Chat"
ClearChat(h) ==
  /\ ui[h].current_session_id # None
  /\ nextUuid <= MaxUuid
  /\ \E t \in Tick(now) :
       Becomes(h, enhanced_reset_chat_history(Db, ui[h], t), t,
               [NoUi EXCEPT !.op = "clear chat", !.h = h, !.sid = nextUuid])
  /\ UNCHANGED historyVars

\* the Delete button of the confirmation, for a session that was listed when
\* its bin was clicked
ConfirmDelete(h) ==
  /\ ui[h].current_session_id # None
  /\ \E deleting_session \in Issued, t \in Tick(now) :
       /\ deleting_session = ui[h].current_session_id /\ Stored(deleting_session)
            => nextUuid <= MaxUuid
       /\ Becomes(h, handle_session_deletion(Db, ui[h], deleting_session, CURRENT_USER, t), t,
                  [NoUi EXCEPT !.op = "delete session", !.h = h, !.sid = deleting_session,
                               !.open = /\ deleting_session = ui[h].current_session_id
                                        /\ ui[h].messages # <<>>])
  /\ UNCHANGED historyVars

\* the Save button of the title editor (handle_session_editing), for a session
\* get_user_sessions lists
RenameSession(h) ==
  /\ ui[h].current_session_id # None
  /\ \E editing_session \in ListedIds(sessions, CURRENT_USER), new_title \in UserTitles,
        t \in Tick(now) :
       Becomes(h, [db |-> [Db EXCEPT !.sessions = UpdateTitle(@, editing_session, new_title, t)],
                   ui |-> ui[h]],
               t, [NoUi EXCEPT !.op = "rename session", !.h = h, !.sid = editing_session])
  /\ UNCHANGED historyVars

\* the end of a script run: every AutoSaveEvery messages, save_current_session
AutoSave(h) ==
  /\ ui[h].current_session_id # None
  /\ Len(ui[h].messages) > 0 /\ Len(ui[h].messages) % AutoSaveEvery = 0
  /\ \E t \in Tick(now) :
       Becomes(h, save_current_session(Db, ui[h], t), t,
               [NoUi EXCEPT !.op = "auto-save", !.h = h, !.sid = ui[h].current_session_id])
  /\ UNCHANGED historyVars

\* clear_search_history, once confirmed: clear_history()
ClearHistory(h) ==
  /\ ui[h].current_session_id # None
  /\ \E zone \in Zones, fail \in BOOLEAN : clear_history(NoDays, zone, fail)
  /\ lastUi' = [NoUi EXCEPT !.op = "clear history", !.h = h]
  /\ UNCHANGED <<storeVars, ui, download, titled>>

\* ---- two request handlers of the same user, chat turns and full-session
\* ---- rewrites.  A chat turn is taken here without another handler's calls
\* ---- in between, which is one of the interleavings.
NextTwo ==
  \/ \E h \in Handlers : Initialize(h)
  \/ \E h \in Handlers : ChatTurn(h)
  \/ \E h \in Handlers : AutoSave(h)

SpecTwo == Init /\ [][NextTwo]_vars

\* ---- one request handler ----
NextApp ==
  \/ Initialize(1)
  \/ ChatTurn(1)
  \/ NewSession(1)
  \/ LoadSession(1)
  \/ ClearChat(1)
  \/ ConfirmDelete(1)
  \/ RenameSession(1)
  \/ AutoSave(1)
  \/ ClearHistory(1)

SpecApp == Init /\ [][NextApp]_vars

\* ======================= the session export =======================
\* session_ui.export_session: json.dumps of the envelope, and json.loads of
\* the text the download holds.  A text is the sequence of its characters.

\* mutant: the backslash is written as it is
EscapeChar_BackslashKept(c) ==
  IF c = "\"" THEN <<"\\", "\"">>
  ELSE IF c = "\n" THEN <<"\\", "n">>
  ELSE <<c>>

\* json.dumps(..., ensure_ascii=False) of one character of a str: the quote,
\* the backslash and the line break are escaped, a letter is written as it is
EscapeChar(c) ==
  IF c = "\"" THEN <<"\\", "\"">>
  ELSE IF c = "\\" THEN <<"\\", "\\">>
  ELSE IF c = "\n" THEN <<"\\", "n">>
  ELSE <<c>>

RECURSIVE Escape(_)
Escape(chars) == IF chars = <<>> THEN <<>> ELSE EscapeChar(chars[1]) \o Escape(Tail(chars))

\* json.loads of what stands between the quotes of a literal
RECURSIVE Unescape(_)
Unescape(text) ==
  IF text = <<>> THEN <<>>
  ELSE IF text[1] = "\\" /\ Len(text) >= 2
       THEN <<IF text[2] = "n" THEN "\n" ELSE text[2]>> \o Unescape(SubSeq(text, 3, Len(text)))
       ELSE <<text[1]>> \o Unescape(Tail(text))

\* the JSON literal of an int that is not negative, and json.loads of it
Digits == <<"0", "1", "2", "3", "4", "5", "6", "7", "8", "9">>
RECURSIVE DumpInt(_)
DumpInt(n) == IF n < 10 THEN <<Digits[n + 1]>> ELSE DumpInt(n \div 10) \o <<Digits[(n % 10) + 1]>>
RECURSIVE LoadInt(_)
LoadInt(literal) ==
  LET DigitValue(c) == CHOOSE d \in 0..9 : Digits[d + 1] = c
  IN  IF Len(literal) = 1 THEN DigitValue(literal[1])
      ELSE 10 * LoadInt(SubSeq(literal, 1, Len(literal) - 1)) + DigitValue(literal[Len(literal)])

\* the role column, as characters
RoleChars(role) == IF role = "user" THEN <<"u", "s", "e", "r">>
                   ELSE <<"a", "s", "s", "i", "s", "t", "a", "n", "t">>

\* json.dumps(export_data): the objects and the array keep their shape, every
\* str and int in them is its literal (the timestamps and the title are not
\* modelled)
DumpExport(session_id, loaded) ==
  LET DumpString(chars) == <<"\"">> \o Escape(chars) \o <<"\"">>
  IN
  [session_id    |-> DumpInt(session_id),
   message_count |-> DumpInt(Len(loaded)),
   messages      |-> [k \in 1..Len(loaded) |->
                        [role          |-> DumpString(RoleChars(loaded[k].role)),
                         content       |-> DumpString(loaded[k].content),
                         message_index |-> DumpInt(loaded[k].message_index)]]]

\* json.loads of the downloaded text
ParseExport(data) ==
  LET LoadString(literal) == Unescape(SubSeq(literal, 2, Len(literal) - 1))
      RoleOf(chars) == IF chars = RoleChars("user") THEN "user" ELSE "assistant"
  IN
  [session_id    |-> LoadInt(data.session_id),
   message_count |-> LoadInt(data.message_count),
   messages      |-> [k \in 1..Len(data.messages) |->
                        [role          |-> RoleOf(LoadString(data.messages[k].role)),
                         content       |-> LoadString(data.messages[k].content),
                         message_index |-> LoadInt(data.messages[k].message_index)]]]

\* nothing is rendered for a session without messages
export_session(session_id) ==
  /\ download' = IF load_session_messages(session_id) = <<>> THEN download
                 ELSE [session_id |-> session_id,
                       data |-> DumpExport(session_id, load_session_messages(session_id))]
  /\ UNCHANGED <<storeVars, historyVars, ui, lastUi, titled>>

\* ---- sessions whose messages hold quotes, backslashes and line breaks ----
CallSaveText ==
  /\ \E sid \in Issued, role \in {"user", "assistant"}, i \in Indices,
        content \in {<<"n">>, <<"\"">>, <<"\\", "n">>, <<"\n">>, <<"\\", "\"">>} :
       save_message(sid, role, content, i, FALSE)
  /\ UNCHANGED <<historyVars, uiVars>>

CallExportSession ==
  \E session_id \in Issued : export_session(session_id)

NextExport ==
  \/ CallCreate
  \/ CallSaveText
  \/ CallExportSession

SpecExport == Init /\ [][NextExport]_vars

\* ======================= the session title =======================
\* SessionManager.generate_session_title on the characters of its argument.
TitleLimit == 50                         \* len(clean_message) > 50

LowerCase == <<"a", "e", "h", "i", "l", "o", "p", "s", "t", "w", "x">>
UpperCase == <<"A", "E", "H", "I", "L", "O", "P", "S", "T", "W", "X">>
\* str.lower() of one character
ToLower(c) ==
  IF \E k \in 1..Len(UpperCase) : UpperCase[k] = c
  THEN LowerCase[CHOOSE k \in 1..Len(UpperCase) : UpperCase[k] = c] ELSE c

\* str.strip()
RECURSIVE LStrip(_)
LStrip(chars) == IF chars # <<>> /\ chars[1] = " " THEN LStrip(Tail(chars)) ELSE chars
RECURSIVE RStrip(_)
RStrip(chars) ==
  IF chars # <<>> /\ chars[Len(chars)] = " " THEN RStrip(SubSeq(chars, 1, Len(chars) - 1))
  ELSE chars
Strip(chars) == RStrip(LStrip(chars))

\* prefixes_to_remove, in the order of the list
prefixes_to_remove ==
  <<(<<"w", "h", "a", "t", " ", "i", "s">>), (<<"w", "h", "a", "t", " ", "a", "r", "e">>),
    (<<"h", "o", "w", " ", "d", "o">>), (<<"h", "o", "w", " ", "t", "o">>),
    (<<"c", "a", "n", " ", "y", "o", "u">>), (<<"p", "l", "e", "a", "s", "e">>),
    (<<"h", "e", "l", "p", " ", "m", "e">>)>>

\* the loop with its break: the first prefix of the list that
\* lower_message.startswith is cut off, and what is left is stripped
RemovePrefix(chars) ==
  LET StartsWith(prefix) ==
        Len(chars) >= Len(prefix) /\ \A k \in 1..Len(prefix) : ToLower(chars[k]) = prefix[k]
      matching == {k \in 1..Len(prefixes_to_remove) : StartsWith(prefixes_to_remove[k])}
  IN  IF matching = {} THEN chars
      ELSE LET first == CHOOSE k \in matching : \A j \in matching : k <= j
           IN  Strip(SubSeq(chars, Len(prefixes_to_remove[first]) + 1, Len(chars)))

\* if len(clean_message) > 50: clean_message[:47] + "..."
Truncate(chars) ==
  IF Len(chars) > TitleLimit THEN SubSeq(chars, 1, 47) \o <<".", ".", ".">> ELSE chars

\* clean_message[0].upper() + clean_message[1:]
Capitalize(chars) ==
  LET upper(c) == IF \E k \in 1..Len(LowerCase) : LowerCase[k] = c
                  THEN UpperCase[CHOOSE k \in 1..Len(LowerCase) : LowerCase[k] = c] ELSE c
  IN  IF chars = <<>> THEN chars ELSE <<upper(chars[1])>> \o Tail(chars)

\* the two defaults, with the letters of the format in place of the clock's digits
SessionStampTitle ==
  <<"C", "h", "a", "t", " ", "S", "e", "s", "s", "i", "o", "n", " ", "-", " ",
    "Y", "Y", "Y", "Y", "-", "m", "m", "-", "d", "d", " ", "H", "H", ":", "M", "M">>
ChatStampTitle == <<"C", "h", "a", "t", " ", "-", " ", "H", "H", ":", "M", "M">>

\* strip, truncate, remove the prefix, capitalize
GenerateSessionTitle(first_message) ==
  IF first_message = <<>> THEN SessionStampTitle
  ELSE LET clean_message == Capitalize(RemovePrefix(Truncate(Strip(first_message))))
       IN  IF clean_message # <<>> THEN clean_message ELSE ChatStampTitle

\* ---- the first messages the title is generated from ----
MaxBody == 52     \* a message has at most this many characters after its lead-in
RECURSIVE Repeat(_, _)
Repeat(c, n) == IF n = 0 THEN <<>> ELSE <<c>> \o Repeat(c, n - 1)
FirstMessages ==
  LET LeadIns == {<<>>, prefixes_to_remove[1], <<"W", "h", "a", "t", " ", "I", "S">>,
                  prefixes_to_remove[6], prefixes_to_remove[2]}
      Spaces == {<<>>, <<" ">>}
  IN  {a \o lead \o b \o Repeat("x", n) \o c :
         a \in Spaces, lead \in LeadIns, b \in Spaces, n \in 0..MaxBody, c \in Spaces}

\* the result depends on the argument alone, so a behaviour makes one call
CallGenerateTitle ==
  /\ ~titled.called
  /\ \E first_message \in FirstMessages :
       titled' = [called |-> TRUE, first_message |-> first_message,
                  title |-> GenerateSessionTitle(first_message)]
  /\ UNCHANGED <<storeVars, historyVars, ui, lastUi, download>>

SpecTitle == Init /\ [][CallGenerateTitle]_vars

\* ======================= the claims =======================
\* every identifier a call can name
Uuids == 1..(MaxUuid + 1)

\* C1 (as claimed): whenever no rewrite is under way, every stored session's
\* message_count equals the number of chat_messages rows with its session_id.
C1_MessageCountMatchesRows ==
  pc = "idle" =>
    \A sid \in DOMAIN sessions : sessions[sid].message_count = CountRows(messages, sid)

\* C2 (as claimed): every chat_messages row has the session_id of a stored
\* session, so a save_message naming an identifier without a stored session
\* (the fallback identifier, a deleted session) adds no row.
C2_EveryMessageHasASession ==
  \A k \in 1..Len(messages) : Stored(messages[k].session_id)

\* C3 (as claimed): a committed save_message(S, role, content, i) on a stored
\* session that already has a row with index i leaves exactly one message with
\* index i, carrying the new content, and leaves the number of messages and
\* message_count as they were.
C3_SaveReplacesExistingIndex ==
  [][\A sid \in Uuids, m \in Msgs, i \in Indices :
       ( /\ save_message(sid, m.role, m.content, i, FALSE)
         /\ Stored(sid)
         /\ \E k \in 1..Len(messages) :
              messages[k].session_id = sid /\ messages[k].message_index = i )
       => LET after == LoadFrom(messages', sid)
              at_i  == SelectSeq(after, LAMBDA x : x.message_index = i)
          IN  /\ Len(at_i) = 1
              /\ at_i[1].content = m.content
              /\ Len(after) = Len(load_session_messages(sid))
              /\ sessions'[sid].message_count = sessions[sid].message_count]_vars

\* the step on which save_current_session(S, M) returns, no statement of it
\* having failed
ReturnsClean(sid, M) ==
  \/ ReturnsEarly(sid, M) /\ SaveCurrentSessionDelete(sid, M, FALSE)
  \/ /\ pc = "title" /\ rw.sid = sid /\ rw.msgs = M /\ ~rw.failed
     /\ \E needs_title \in BOOLEAN : SaveCurrentSessionTitle(needs_title, FALSE)

\* C4 (as claimed): when save_current_session returns for session S and
\* in-memory transcript M (the empty one included), load_session_messages(S)
\* is M with message_index 0, 1, ..., len(M)-1.
C4_RewriteStoresTheTranscript ==
  [][\A sid \in Uuids, M \in Transcripts :
       ReturnsClean(sid, M) => LoadFrom(messages', sid) = Enumerate(M)]_vars

\* C5 (as claimed): while a rewrite of session S is under way, failed
\* statements or not, load_session_messages(S) is the complete transcript
\* from before the call or the complete new one.
C5_RewriteIsAllOrNothing ==
  pc \in {"saving", "title"} =>
    load_session_messages(rw.sid) \in {rw.old, Enumerate(rw.msgs)}

\* C6: a delete_session(id, owner) whose owner is not the stored owner of id,
\* or whose id has no stored session, returns False and leaves chat_sessions
\* and chat_messages exactly as they were.
C6_DeleteByNonOwnerChangesNothing ==
  [][\A sid \in Uuids, u \in Users, fail \in FailModes :
       (delete_session(sid, u, fail) /\ ~Owns(sid, u))
       => /\ lastCall'.ret = FALSE
          /\ sessions' = sessions
          /\ messages' = messages]_vars

\* a deletion was refused while a session with messages was stored
C6_Witness ==
  /\ lastCall.op = "delete_session" /\ lastCall.path = "refused"
  /\ \E sid \in DOMAIN sessions : sessions[sid].message_count > 0

\* C7: a delete_session step either returns True with the session row and
\* every message row of the session gone, the caller being the owner, or
\* returns False with both tables unchanged; it never removes one without the
\* other, also when one of its DELETEs fails.
C7_DeleteIsAtomic ==
  [][\A sid \in Uuids, u \in Users, fail \in FailModes :
       delete_session(sid, u, fail)
       => \/ /\ lastCall'.ret = TRUE
             /\ Owns(sid, u)
             /\ sid \notin DOMAIN sessions'
             /\ RowsOf(messages', sid) = <<>>
             /\ DOMAIN sessions' = DOMAIN sessions \ {sid}
          \/ /\ lastCall'.ret = FALSE
             /\ sessions' = sessions
             /\ messages' = messages]_vars

\* a deletion by the owner was rolled back and the session still has its messages
C7_Witness ==
  /\ lastCall.op = "delete_session" /\ lastCall.path = "rolled back"
  /\ \E sid \in DOMAIN sessions : CountRows(messages, sid) > 0

\* the indices of the committed save_message calls of a session are 0..n-1, each once
SavedIndices(L) == {L[k].message_index : k \in 1..Len(L)}
SavedZeroToN(L) == SavedIndices(L) = 0..(Len(L) - 1)

\* C8: for a session created and then written by save_message calls whose
\* indices are 0, 1, ..., n-1 in any call order, load_session_messages returns
\* those n messages in ascending index order with the role and content saved,
\* and message_count is n.
C8_LoadReturnsSavedInIndexOrder ==
  \A sid \in DOMAIN sessions :
    LET L == saved[sid]
        loaded == load_session_messages(sid)
    IN  SavedZeroToN(L) =>
          /\ Len(loaded) = Len(L)
          /\ \A k \in 1..Len(L) : loaded[L[k].message_index + 1] = L[k]
          /\ \A k \in 1..Len(loaded) : loaded[k].message_index = k - 1
          /\ sessions[sid].message_count = Len(L)

\* index 1 was saved before index 0
C8_Witness ==
  \E sid \in DOMAIN sessions :
    /\ Len(saved[sid]) = 2
    /\ saved[sid][1].message_index = 1
    /\ saved[sid][2].message_index = 0
    /\ saved[sid][1].content # saved[sid][2].content

\* C9 (as claimed): a create_new_session whose INSERT commits returns an
\* identifier no stored session had, adds one row with that identifier, the
\* given owner, message_count 0, is_active true and created_at equal to
\* last_updated, and changes no other row.
C9_CreateAddsOneFreshRow ==
  [][\A u \in Users :
       create_new_session(u, None, FALSE)
       => LET id == lastCall'.ret
          IN  /\ id \notin DOMAIN sessions
              /\ DOMAIN sessions' = DOMAIN sessions \cup {id}
              /\ sessions'[id].user_login = u
              /\ sessions'[id].message_count = 0
              /\ sessions'[id].is_active
              /\ sessions'[id].created_at = sessions'[id].last_updated
              /\ \A other \in DOMAIN sessions : sessions'[other] = sessions[other]]_vars

\* C10: a create_new_session whose storage write fails returns an identifier
\* that uuid4() had not returned before, that no stored session has, and
\* leaves chat_sessions and chat_messages as they were.
C10_FailedCreateReturnsUnstoredId ==
  [][\A u \in Users :
       create_new_session(u, None, TRUE)
       => /\ lastCall'.ret \notin Issued
          /\ lastCall'.ret \notin DOMAIN sessions'
          /\ sessions' = sessions
          /\ messages' = messages]_vars

\* the fallback identifier was returned while another session was stored
C10_Witness ==
  /\ lastCall.op = "create_new_session" /\ lastCall.path = "fallback"
  /\ sessions # <<>>
  /\ lastCall.ret \notin DOMAIN sessions

Range(s) == {s[k] : k \in 1..Len(s)}

\* C11: every result of get_user_sessions(owner, limit) has at most limit
\* sessions, each listed once, owned by owner and active, in descending
\* last_updated order, and leaves out no active session of the owner that is
\* newer than one it returns.
C11_ListIsNewestActiveOfOwner ==
  \A u \in Users, limit \in Limits :
    \A R \in get_user_sessions(u, limit) :
      /\ Len(R) <= limit
      /\ \A i, j \in 1..Len(R) : i # j => R[i] # R[j]
      /\ \A k \in 1..Len(R) :
           /\ Stored(R[k])
           /\ sessions[R[k]].user_login = u
           /\ sessions[R[k]].is_active
      /\ \A i, j \in 1..Len(R) :
           i < j => sessions[R[i]].last_updated >= sessions[R[j]].last_updated
      /\ \A sid \in DOMAIN sessions :
           ( /\ sessions[sid].user_login = u
             /\ sessions[sid].is_active
             /\ \E k \in 1..Len(R) : sessions[sid].last_updated > sessions[R[k]].last_updated )
           => sid \in Range(R)

\* the owner has two active sessions, one newer than the other, and the
\* listing with limit 1 returns the newer one alone
C11_Witness ==
  \E a, b \in DOMAIN sessions :
    /\ sessions[a].user_login = CURRENT_USER /\ sessions[a].is_active
    /\ sessions[b].user_login = CURRENT_USER /\ sessions[b].is_active
    /\ sessions[a].last_updated > sessions[b].last_updated
    /\ get_user_sessions(CURRENT_USER, 1) = {<<a>>}

\* C12: an archive_session(id, owner) that commits, called by the stored
\* owner, returns True, sets is_active to false and deletes nothing (the
\* session row stays, chat_messages and load_session_messages(id) are as
\* before), after which no get_user_sessions result holds id; called by anyone
\* else it returns False and leaves every row, is_active included, unchanged.
C12_ArchiveHidesAndKeeps ==
  [][\A sid \in Uuids, u \in Users :
       archive_session(sid, u, FALSE)
       => IF Owns(sid, u)
          THEN /\ lastCall'.ret = TRUE
               /\ DOMAIN sessions' = DOMAIN sessions
               /\ ~sessions'[sid].is_active
               /\ messages' = messages
               /\ LoadFrom(messages', sid) = load_session_messages(sid)
               /\ \A u2 \in Users, limit \in Limits :
                    \A R \in GetUserSessionsFrom(sessions', u2, limit) : sid \notin Range(R)
          ELSE /\ lastCall'.ret = FALSE
               /\ sessions' = sessions
               /\ messages' = messages]_vars

\* the owner has archived a session that has messages
C12_Witness ==
  /\ lastCall.op = "archive_session" /\ lastCall.ret = TRUE
  /\ \E sid \in DOMAIN sessions :
       /\ ~sessions[sid].is_active
       /\ CountRows(messages, sid) > 0
       /\ sessions[sid].user_login = CURRENT_USER

\* C13 (as claimed): across every step of the store, a stored session's
\* last_updated never decreases, and every step that changes the message rows
\* of a stored session (save_message, the DELETE of the full-session rewrite)
\* leaves its last_updated at the time of that write, which is no earlier
\* than the latest clock value read so far.
C13_LastUpdatedFollowsWrites ==
  [][\A sid \in Uuids :
       (sid \in DOMAIN sessions /\ sid \in DOMAIN sessions')
       => /\ sessions'[sid].last_updated >= sessions[sid].last_updated
          /\ RowsOf(messages', sid) # RowsOf(messages, sid)
               => sessions'[sid].last_updated = now']_vars

\* ---- the claims about the search history ----
\* the row a committed log_search has just added, and the record
\* get_search_history returns for it
Logged == history'[Len(history')]
LoggedRecord ==
  LET all == GetSearchHistoryFrom(history', ExportLimit, 0, NoFilters, "asc")
  IN  CHOOSE r \in Range(all) : r.record_id = lastLog'.ret

\* C14 (as claimed): when the adapter fails inside log_search (chain.invoke
\* raises or times out, or its output does not parse) and the storage works,
\* log_search adds one search_history row with empty structured fields and
\* source "database" and returns that row's positive record_id.
C14_AdapterFailureStillLogs ==
  [][\A agent_response \in Responses, session_id \in SessionIds, outcome \in AdapterOutcomes :
       ( /\ outcome.kind \in {"raises", "unparsable"}
         /\ log_interaction(agent_response, session_id, outcome, FALSE) )
       => /\ Len(history') = Len(history) + 1
          /\ lastLog'.ret > 0
          /\ Logged.record_id = lastLog'.ret
          /\ Logged.product_brand = Str(<<>>)
          /\ Logged.product_model = Str(<<>>)
          /\ JsonLoads(Logged.price_details) = List(<<>>)
          /\ JsonLoads(Logged.vendors) = List(<<>>)
          /\ JsonLoads(Logged.verified_urls) = List(<<>>)
          /\ Logged.source = "database"]_vars

\* C15 (as claimed): log_search returns -1 exactly when a failure of the
\* storage prevented the INSERT, and search_history is then unchanged; in
\* every other case, whatever the extraction gave, it returns the positive
\* record_id of the one row it added.
C15_MinusOneOnlyOnStorageFailure ==
  [][\A agent_response \in Responses, session_id \in SessionIds,
        outcome \in AdapterOutcomes, fail \in BOOLEAN :
       log_interaction(agent_response, session_id, outcome, fail)
       => /\ (lastLog'.ret = -1) <=> fail
          /\ fail => history' = history
          /\ ~fail => /\ lastLog'.ret > 0
                      /\ Len(history') = Len(history) + 1
                      /\ SubSeq(history', 1, Len(history)) = history
                      /\ Logged.record_id = lastLog'.ret]_vars

\* C16: the source of every record log_search has stored is "web" when the
\* extracted verified_urls is a list with at least one URL and "database"
\* otherwise, whatever source argument log_interaction derived from the
\* response text.
C16_SourceFollowsVerifiedUrls ==
  \A k \in 1..Len(history) :
    \A urls \in {JsonLoads(history[k].verified_urls)} :
      history[k].source = IF urls.t = "list" /\ Len(urls.v) >= 1 THEN "web" ELSE "database"

\* a record with URLs is stored as "web", and the last call, made with the
\* source argument "both", stored a record without URLs as "database"
C16_Witness ==
  /\ lastLog.source = "both" /\ lastLog.ret = Len(history) /\ Len(history) >= 2
  /\ history[Len(history)].source = "database"
  /\ \E k \in 1..Len(history) :
       history[k].source = "web" /\ JsonLoads(history[k].verified_urls).v # <<>>

\* the extraction yields nothing for a field: the key is missing or null
Nothing(parsed_json, key) == key \notin DOMAIN parsed_json \/ parsed_json[key] = Null

\* C17 (as claimed): in the record a committed log_search stores, as
\* get_search_history returns it, price_details, vendors and verified_urls
\* are lists, never null, and every field the extraction yielded nothing for
\* (no tool call, unparsable or empty object, key missing or null) has its
\* empty value: "" for brand and model, [] for the lists, source "database"
\* without verified_urls.
C17_EmptyFieldsAreEmptyValues ==
  [][\A agent_response \in Responses, session_id \in SessionIds, outcome \in AdapterOutcomes :
       ( /\ outcome.kind # "raises"
         /\ log_interaction(agent_response, session_id, outcome, FALSE) )
       => LET parsed_json == ParsedJson(outcome)
              record == LoggedRecord
          IN  /\ record.price_details.t = "list"
              /\ record.vendors.t = "list"
              /\ record.verified_urls.t = "list"
              /\ Nothing(parsed_json, "product_brand") => record.product_brand = Str(<<>>)
              /\ Nothing(parsed_json, "product_model") => record.product_model = Str(<<>>)
              /\ Nothing(parsed_json, "price_details") => record.price_details = List(<<>>)
              /\ Nothing(parsed_json, "vendors") => record.vendors = List(<<>>)
              /\ Nothing(parsed_json, "verified_urls")
                   => record.verified_urls = List(<<>>) /\ record.source = "database"]_vars

\* the filters of the queries
BrandFilters == {<<>>, <<"h">>, <<"_">>}
ModelFilters == {<<>>, <<"a">>}
Dates == {NoDate} \cup {[sec |-> sec, micro |-> micro] : sec \in 0..MaxClock, micro \in {0, 500000}}
Filters ==
  {[brand_filter |-> b, model_filter |-> m, date_from |-> d1, date_to |-> d2, session_id |-> sid] :
     b \in BrandFilters, m \in ModelFilters, d1 \in Dates, d2 \in Dates, sid \in {"", "s1"}}
PageSizes == 1..2
\* the filters of the paged queries: none, or a brand text
PageFilters == {[NoFilters EXCEPT !.brand_filter = b] : b \in {<<>>, <<"h">>}}

\* text contains part, letters compared without regard to case
Contains(text, part) ==
  \E i \in 1..(Len(text) - Len(part) + 1) :
    Lower(SubSeq(text, i, i + Len(part) - 1)) = Lower(part)

\* a record satisfies the filters that were supplied
Satisfies(record, f) ==
  /\ f.brand_filter # <<>>
       => record.product_brand.t = "str" /\ Contains(record.product_brand.v, f.brand_filter)
  /\ f.model_filter # <<>>
       => record.product_model.t = "str" /\ Contains(record.product_model.v, f.model_filter)
  /\ f.date_from # NoDate
       => \/ record.timestamp > f.date_from.sec
          \/ record.timestamp = f.date_from.sec /\ f.date_from.micro = 0
  /\ f.date_to # NoDate => record.timestamp <= f.date_to.sec
  /\ f.session_id # "" => record.session_id = f.session_id

\* C18 (as claimed): get_search_history returns only records that satisfy
\* every supplied filter (brand and model contain the filter text, case
\* ignored; timestamp in [date_from, date_to]; session_id equal), and, up to
\* limit, leaves out no record that satisfies them all.
C18_FiltersAreConjuncts ==
  \A f \in Filters, limit \in PageSizes, tie \in TieOrders :
    LET R == get_search_history(limit, 0, f, tie)
        matching == {k \in 1..Len(history) : Satisfies(Record(history[k]), f)}
    IN  /\ \A k \in 1..Len(R) : Satisfies(R[k], f)
        /\ Len(R) = Min(limit, Cardinality(matching))

RECURSIVE Pages(_, _, _, _)
\* the pages 0..p of page size L, one after the other
Pages(p, L, f, tie) ==
  IF p < 0 THEN <<>>
  ELSE Pages(p - 1, L, f, tie) \o get_search_history(L, p * L, f, tie)

ExpectedPriceRange(price_details) ==
  LET distinct == {price_details.v[k].value : k \in 1..Len(price_details.v)}
      lo == CHOOSE x \in distinct : \A y \in distinct : x <= y
      hi == CHOOSE x \in distinct : \A y \in distinct : x >= y
  IN  IF distinct = {} THEN [text |-> "No prices", lo |-> 0, hi |-> 0]
      ELSE IF Cardinality(distinct) = 1 THEN [text |-> "$lo", lo |-> lo, hi |-> lo]
      ELSE [text |-> "$lo - $hi", lo |-> lo, hi |-> hi]

\* the record can be written to the file: its lists are lists and every
\* price entry has a value
Exportable(record) ==
  /\ record.price_details.t = "list"
  /\ record.vendors.t = "list"
  /\ record.verified_urls.t = "list"
  /\ \A k \in 1..Len(record.price_details.v) : record.price_details.v[k].t = "dict"

\* C20 (as claimed): export_to_csv writes, for every record it can format, a
\* row whose price range is "No prices" for no price entry, the one formatted
\* value for exactly one distinct price and "$min - $max" for two or more
\* distinct prices, also when other records have price entries that cannot
\* be formatted.
C20_ExportPriceRange ==
  [][export_to_csv
     => \A k \in 1..Len(history) :
          LET record == Record(history[k])
          IN  Exportable(record)
              => \E n \in 1..Len(lastExport'.rows) :
                   /\ lastExport'.rows[n].record_id = record.record_id
                   /\ lastExport'.rows[n].price_range
                        = ExpectedPriceRange(record.price_details)]_vars

\* C21 (as claimed): clear_history() removes every record; clear_history(d)
\* removes exactly the records stamped before now - d days, now being read on
\* the clock that stamped them (UTC), and keeps the others as they were.
C21_ClearRemovesTheOldRecords ==
  [][(lastClear'.op = "clear_history" /\ lastClear'.ret /\ lastClear' # lastClear)
       => history' = IF lastClear'.days_to_keep = NoDays THEN <<>>
                     ELSE SelectSeq(history, LAMBDA r :
                            ~(r.timestamp < lastClear'.at - lastClear'.days_to_keep * Day))]_vars

\* C22 (confirmed): a step changes the history only by appending one record
\* whose record_id is above every record_id used before, or by removing
\* records; the records that stay keep every field.  A UI action made of
\* session store calls (deleting the session a record refers to included)
\* leaves the history as it was, and clearing the history leaves sessions and
\* messages as they were.
StoreOnlyOps ==
  {"initialize", "new session", "load session", "clear chat", "delete session",
   "rename session", "auto-save"}

C22_HistoryOnlyGrowsOrIsCleared ==
  [][/\ history' # history
          => \/ /\ Len(history') = Len(history) + 1
                /\ SubSeq(history', 1, Len(history)) = history
                /\ history'[Len(history')].record_id > seq
                /\ \A k \in 1..Len(history) :
                     history'[Len(history')].record_id > history[k].record_id
             \/ /\ Len(history') < Len(history)
                /\ \A k \in 1..Len(history') : \E j \in 1..Len(history) : history'[k] = history[j]
     /\ lastUi'.op \in StoreOnlyOps => history' = history
     /\ lastUi'.op = "clear history" => sessions' = sessions /\ messages' = messages]_vars

\* a record was logged after a clear, and the session it refers to has just
\* been deleted
C22_Witness ==
  /\ lastUi.op = "delete session" /\ ~Stored(lastUi.sid)
  /\ lastClear.op = "clear_history" /\ lastClear.ret
  /\ Len(history) = 1 /\ history[1].record_id = 2 /\ history[1].session_id = lastUi.sid

\* C25 (confirmed): when export_session renders a download, the JSON text
\* parses to an envelope whose messages array has the role, content and
\* message_index of load_session_messages of that session, in its order, and
\* whose message_count is the length of that array.
C25_ExportRoundTrips ==
  [][(download' # download /\ download'.session_id # None)
       => \A export_data \in {ParseExport(download'.data)} :
            /\ export_data.messages = LoadFrom(messages, download'.session_id)
            /\ export_data.message_count = Len(export_data.messages)
            /\ export_data.messages # <<>>]_vars

\* a session was exported whose first message has a backslash followed by the
\* letter n and whose second message has a line break
C25_Witness ==
  /\ download.session_id # None
  /\ Len(ParseExport(download.data).messages) = 2
  /\ ParseExport(download.data).messages[1].content = <<"\\", "n">>
  /\ ParseExport(download.data).messages[2].content = <<"\n">>
  /\ ParseExport(download.data).messages = load_session_messages(download.session_id)

\* C23 (as claimed): a call that met a storage failure returned its safe
\* value (a fallback identifier that names no stored session, or False), and
\* load_session_messages of a session that is not stored, because it never
\* was or because it was deleted, is the empty sequence.
C23_TotalAndEmptyForMissingSessions ==
  /\ lastCall.path = "fallback" => ~Stored(lastCall.ret)
  /\ lastCall.path \in {"refused", "rolled back"} => lastCall.ret = FALSE
  /\ \A sid \in Uuids : ~Stored(sid) => load_session_messages(sid) = <<>>

\* C24 (confirmed): in a chat turn in which the agent produced a response, the
\* transcript grows by the user message and the assistant message carrying
\* that response, and that assistant message is stored for the session at the
\* next index, whatever log_interaction met.
C24_LoggingNeverSpoilsTheTurn ==
  [][\A h \in Handlers :
       (lastUi'.op = "chat turn" /\ lastUi'.h = h /\ lastUi'.agent = "responds"
          /\ ui'[h].messages # ui[h].messages)
       => LET M == ui[h].messages
              sid == ui[h].current_session_id
          IN  /\ Len(ui'[h].messages) = Len(M) + 2
              /\ SubSeq(ui'[h].messages, 1, Len(M)) = M
              /\ ui'[h].messages[Len(M) + 1].role = "user"
              /\ ui'[h].messages[Len(M) + 2] = [role |-> "assistant", content |-> Response]
              /\ messages'[Len(messages')] =
                   [session_id |-> sid, role |-> "assistant", content |-> Response,
                    message_index |-> Len(M) + 1]]_vars

\* the agent answered, the extraction raised and log_search returned -1
C24_Witness ==
  /\ lastUi.op = "chat turn" /\ lastUi.agent = "responds" /\ lastUi.log = "extraction failed"
  /\ lastLog.ret = -1
  /\ ui[1].messages # <<>>
  /\ ui[1].messages[Len(ui[1].messages)].content = Response

\* C26 (as claimed): the title is the result of trimming the message, removing
\* the first matching lead-in, truncating what remains to 50 characters (47 and
\* the ellipsis) and capitalizing it; it is a timestamp default exactly when
\* nothing remains after the cleaning, and it is never longer than 50.
TitleAsClaimed(first_message) ==
  LET cleaned == RemovePrefix(Strip(first_message))
  IN  IF cleaned = <<>> THEN {SessionStampTitle, ChatStampTitle}
      ELSE {Capitalize(Truncate(cleaned))}

C26_TitleFollowsTheStatedSteps ==
  titled.called
    => /\ titled.title \in TitleAsClaimed(titled.first_message)
       /\ Len(titled.title) <= TitleLimit

\* C27 (as claimed): no two chat_messages rows of one session have the same
\* message_index, whatever two handlers that hold the session open do.
C27_IndicesStayUnique ==
  \A i, j \in 1..Len(messages) :
    (i # j /\ messages[i].session_id = messages[j].session_id)
      => messages[i].message_index # messages[j].message_index

\* C28 (as claimed): after the deletion handler has run for the open session
\* with a non-empty transcript, chat_messages holds no row of the deleted
\* session and load_session_messages of it is empty.
C28_DeletedSessionHasNoRows ==
  (lastUi.op = "delete session" /\ lastUi.open)
    => /\ RowsOf(messages, lastUi.sid) = <<>>
       /\ load_session_messages(lastUi.sid) = <<>>

\* C29 (confirmed): with one request handler, after a chat turn, a session
\* switch, a new session, a clear chat and an auto-save, the messages stored
\* for the current session are, in index order, the roles and contents of
\* the in-memory transcript.
SyncedOps == {"chat turn", "load session", "new session", "clear chat", "auto-save"}

C29_StoredTranscriptIsTheTranscript ==
  lastUi.op \in SyncedOps
    => Transcript(Db, ui[lastUi.h].current_session_id) = ui[lastUi.h].messages

\* a chat turn has run in each of two sessions, and the first one is open again
C29_Witness ==
  /\ lastUi.op = "load session"
  /\ ui[1].current_session_id = 1
  /\ Len(ui[1].messages) = 2
  /\ Transcript(Db, 1) = ui[1].messages
  /\ Len(messages) = 4

\* C30 (as claimed): a title the user gave a session stays a title the user
\* gave it.
C30_UserTitleIsKept ==
  [][\A sid \in DOMAIN sessions \cap DOMAIN sessions' :
       sessions[sid].session_title \in UserTitles
         => sessions'[sid].session_title \in UserTitles]_vars

====
